---- MODULE Spec2Model ----
(***************************************************************************)
(* Model of the export-file parsers of VNA_scripts.py:                     *)
(*   ZVL_spectrum_read_1trace / ZNL_spectrum_read_1trace  (one file)       *)
(*   ZVL_spectrum_read_multrace / ZNL_spectrum_read_multrace (file list)   *)
(* A file is the sequence of lines that `for line in file` yields; a line  *)
(* is a sequence of characters; a character is a one-element string (the   *)
(* two non-ASCII digits are written by their code point).                  *)
(***************************************************************************)
EXTENDS Integers, Sequences, FiniteSets, TLC

(***************************************************************************)
(* Text layer: the Python str / float / int built-ins the parser calls.    *)
(***************************************************************************)

\* Characters str.strip() removes (the ones that occur in the model's files).
Whitespace == {" ", "\t", "\n"}

AsciiDigit == {"0", "1", "2", "3", "4", "5", "6", "7", "8", "9"}

\* ARABIC-INDIC DIGIT THREE: category Nd, str.isdigit() is True and float()
\* and int() accept it as the decimal digit 3.
UnicodeDecimal == {"U+0663"}

\* SUPERSCRIPT TWO: category No, str.isdigit() is True but float() and
\* int() reject it.
UnicodeOtherDigit == {"U+00B2"}

\* str.isdigit() of a one-character string.
isdigit_mut_ascii(c) == c \in AsciiDigit
isdigit(c) == c \in AsciiDigit \cup UnicodeDecimal \cup UnicodeOtherDigit

\* The characters float() and int() read as decimal digits.
IsDecimalChar(c) == c \in AsciiDigit \cup UnicodeDecimal

DigitValue(c) ==
    CASE c = "0" -> 0 [] c = "1" -> 1 [] c = "2" -> 2 [] c = "3" -> 3
      [] c = "4" -> 4 [] c = "5" -> 5 [] c = "6" -> 6 [] c = "7" -> 7
      [] c = "8" -> 8 [] c = "9" -> 9 [] c = "U+0663" -> 3

\* Index of the first character of s, from i on, that is not whitespace.
RECURSIVE FirstInk(_, _)
FirstInk(s, i) ==
    IF i <= Len(s) /\ s[i] \in Whitespace THEN FirstInk(s, i + 1) ELSE i

\* Index of the last character of s, up to i, that is not whitespace.
RECURSIVE LastInk(_, _)
LastInk(s, i) ==
    IF i >= 1 /\ s[i] \in Whitespace THEN LastInk(s, i - 1) ELSE i

\* str.strip(): leading and trailing whitespace removed, interior kept.
strip(s) == SubSeq(s, FirstInk(s, 1), LastInk(s, Len(s)))

\* Position of the first occurrence of a character of cs in s, 0 if none.
RECURSIVE FindFirst(_, _, _)
FindFirst(s, cs, i) ==
    IF i > Len(s) THEN 0
    ELSE IF s[i] \in cs THEN i
    ELSE FindFirst(s, cs, i + 1)

\* str.split(';'): always at least one token; tokens are not stripped.
RECURSIVE split(_)
split(s) ==
    LET p == FindFirst(s, {";"}, 1) IN
    IF p = 0 THEN <<s>>
    ELSE <<SubSeq(s, 1, p - 1)>> \o split(SubSeq(s, p + 1, Len(s)))

IsDigits(s) == Len(s) >= 1 /\ \A i \in 1..Len(s) : IsDecimalChar(s[i])

RECURSIVE DigitsVal(_)
DigitsVal(s) ==
    IF s = <<>> THEN 0
    ELSE 10 * DigitsVal(SubSeq(s, 1, Len(s) - 1)) + DigitValue(s[Len(s)])

\* A sign prefix removed: <<sign, rest>>.
Unsign(s) ==
    IF s # <<>> /\ Head(s) = "-" THEN <<-1, Tail(s)>>
    ELSE IF s # <<>> /\ Head(s) = "+" THEN <<1, Tail(s)>>
    ELSE <<1, s>>

\* A decimal value m * 10^e in normal form: m = 0 and e = 0, or 10 does not
\* divide m.  Two tokens denote the same float exactly when their normal
\* forms are equal (tokens of the model are far shorter than the 15
\* significant digits a double keeps).
RECURSIVE Normal(_, _)
Normal(m, e) ==
    IF m = 0 THEN <<0, 0>>
    ELSE IF m % 10 = 0 THEN Normal(m \div 10, e + 1)
    ELSE <<m, e>>

\* float(x) of a string: [ok |-> FALSE] for ValueError, else the value.
\* Grammar: strip, sign, then digits [. digits] or . digits, then an
\* optional exponent (e|E) sign digits.
float(x) ==
    LET s    == strip(x)
        sg   == Unsign(s)
        body == sg[2]
        pe   == FindFirst(body, {"e", "E"}, 1)
        mant == IF pe = 0 THEN body ELSE SubSeq(body, 1, pe - 1)
        expo == IF pe = 0 THEN <<>> ELSE SubSeq(body, pe + 1, Len(body))
        ex   == Unsign(expo)
        pd   == FindFirst(mant, {"."}, 1)
        ip   == IF pd = 0 THEN mant ELSE SubSeq(mant, 1, pd - 1)
        fp   == IF pd = 0 THEN <<>> ELSE SubSeq(mant, pd + 1, Len(mant))
        okM  == /\ \A i \in 1..Len(ip) : IsDecimalChar(ip[i])
                /\ \A i \in 1..Len(fp) : IsDecimalChar(fp[i])
                /\ Len(ip) + Len(fp) >= 1
        okE  == pe = 0 \/ IsDigits(ex[2])
    IN  IF okM /\ okE
        THEN [ok  |-> TRUE,
              val |-> Normal(sg[1] * DigitsVal(ip \o fp),
                             (IF pe = 0 THEN 0 ELSE ex[1] * DigitsVal(ex[2]))
                                - Len(fp))]
        ELSE [ok |-> FALSE, val |-> <<0, 0>>]

\* int(x) of a string: strip, sign, digits only.
int(x) ==
    LET sg == Unsign(strip(x)) IN
    IF IsDigits(sg[2])
    THEN [ok |-> TRUE, val |-> sg[1] * DigitsVal(sg[2])]
    ELSE [ok |-> FALSE, val |-> 0]


(***************************************************************************)
(* The two instrument families: fixed header offsets and settings classes. *)
(***************************************************************************)

\* ZVL_spectrum_read_1trace: the header lookups, in program order:
\* <<local variable, row index, token index>> (indices as in the code, from 0).
ZVL_lookups ==
    <<<<"dev_type", 0, 1>>, <<"dev_version", 1, 1>>,
       <<"dev_date", 2, 1>>, <<"dev_mode", 3, 1>>,
       <<"dev_center_freq", 4, 1>>, <<"dev_center_unit", 4, 2>>,
       <<"dev_offset", 5, 1>>, <<"dev_offset_unit", 5, 2>>,
       <<"dev_span", 6, 1>>, <<"dev_span_unit", 6, 2>>,
       <<"dev_xAx_type", 7, 1>>, <<"dev_xAx_start", 8, 1>>,
       <<"dev_xAx_start_unit", 8, 2>>, <<"dev_xAx_stop", 9, 1>>,
       <<"dev_xAx_stop_unit", 9, 2>>, <<"dev_reflvl", 10, 1>>,
       <<"dev_reflvl_unit", 10, 2>>, <<"dev_offsetlvl", 11, 1>>,
       <<"dev_offsetlvl_unit", 11, 2>>, <<"dev_refpos", 12, 1>>,
       <<"dev_refpos_unit", 12, 2>>, <<"dev_yAx_type", 13, 1>>,
       <<"dev_rangelvl", 14, 1>>, <<"dev_rangelvl_unit", 14, 2>>,
       <<"dev_rfatt", 15, 1>>, <<"dev_rfatt_unit", 15, 2>>,
       <<"dev_RBW", 16, 1>>, <<"dev_RBW_unit", 16, 2>>,
       <<"dev_VBW", 17, 1>>, <<"dev_VBW_unit", 17, 2>>,
       <<"dev_SWT", 18, 1>>, <<"dev_SWT_unit", 18, 2>>,
       <<"dev_trace_mode", 19, 1>>, <<"dev_detector", 20, 1>>,
       <<"dev_sweep_cnt", 21, 1>>, <<"tr_x_unit", 23, 1>>,
       <<"tr_y_unit", 24, 1>>, <<"tr_preamp", 25, 1>>,
       <<"tr_transducer", 26, 1>>, <<"tr_meas_number", 27, 1>> >>

\* The arguments of the device-settings constructor call, in call order.
ZVL_device_args ==
    <<"dev_type", "dev_version", "dev_date", "dev_mode",
       "dev_center_freq", "dev_center_unit", "dev_offset", "dev_offset_unit",
       "dev_span", "dev_span_unit", "dev_xAx_type", "dev_xAx_start",
       "dev_xAx_start_unit", "dev_xAx_stop", "dev_xAx_stop_unit", "dev_reflvl",
       "dev_reflvl_unit", "dev_offsetlvl", "dev_offsetlvl_unit", "dev_refpos",
       "dev_refpos_unit", "dev_yAx_type", "dev_rangelvl", "dev_rangelvl_unit",
       "dev_rfatt", "dev_rfatt_unit", "dev_RBW", "dev_RBW_unit",
       "dev_VBW", "dev_VBW_unit", "dev_SWT", "dev_SWT_unit",
       "dev_trace_mode", "dev_detector", "dev_sweep_cnt" >>

\* device-settings __init__: <<attribute, parameter position, conversion>>,
\* in assignment order.
ZVL_device_init ==
    <<<<"dev_type", 1, "str">>, <<"version", 2, "str">>, <<"date", 3, "str">>,
       <<"mode", 4, "str">>, <<"center_freq", 5, "float">>, <<"center_unit", 6, "str">>,
       <<"offset", 7, "float">>, <<"offset_unit", 8, "str">>, <<"span", 9, "float">>,
       <<"span_unit", 10, "str">>, <<"xAx_type", 11, "str">>, <<"xAx_start", 12, "float">>,
       <<"xAx_start_unit", 13, "str">>, <<"xAx_stop", 14, "float">>, <<"xAx_stop_unit", 15, "str">>,
       <<"reflvl", 16, "float">>, <<"reflvl_unit", 17, "str">>, <<"offsetlvl", 18, "float">>,
       <<"offsetlvl_unit", 19, "str">>, <<"refpos", 20, "float">>, <<"refpos_unit", 21, "str">>,
       <<"yAx_type", 22, "str">>, <<"rangelvl", 23, "float">>, <<"rangelvl_unit", 24, "str">>,
       <<"rfatt", 25, "float">>, <<"rfatt_unit", 26, "str">>, <<"RBW", 27, "float">>,
       <<"RBW_unit", 28, "str">>, <<"VBW", 29, "float">>, <<"VBW_unit", 30, "str">>,
       <<"SWT", 31, "float">>, <<"SWT_unit", 32, "str">>, <<"trace_mode", 33, "str">>,
       <<"detector", 34, "str">>, <<"sweep_cnt", 35, "int">> >>

\* The arguments of the trace-settings constructor call, in call order.
ZVL_trace_args ==
    <<"tr_x_unit", "tr_y_unit", "tr_preamp", "tr_transducer",
       "tr_meas_number" >>

\* trace-settings __init__: <<attribute, parameter position, conversion>>,
\* in assignment order.
ZVL_trace_init ==
    <<<<"x_unit", 1, "str">>, <<"y_unit", 2, "str">>, <<"preamp", 3, "str">>,
       <<"transducer", 4, "str">>, <<"meas_number", 5, "int">> >>

\* ZNL_spectrum_read_1trace: the header lookups, in program order:
\* <<local variable, row index, token index>> (indices as in the code, from 0).
ZNL_lookups ==
    <<<<"dev_type", 0, 1>>, <<"dev_version", 1, 1>>,
       <<"dev_date", 2, 1>>, <<"dev_mode", 3, 1>>,
       <<"dev_preamp", 4, 1>>, <<"dev_transducer", 5, 1>>,
       <<"dev_center_freq", 6, 1>>, <<"dev_center_unit", 6, 2>>,
       <<"dev_offset", 7, 1>>, <<"dev_offset_unit", 7, 2>>,
       <<"dev_xAx_start", 8, 1>>, <<"dev_xAx_start_unit", 8, 2>>,
       <<"dev_xAx_stop", 9, 1>>, <<"dev_xAx_stop_unit", 9, 2>>,
       <<"dev_span", 10, 1>>, <<"dev_span_unit", 10, 2>>,
       <<"dev_reflvl", 11, 1>>, <<"dev_reflvl_unit", 11, 2>>,
       <<"dev_offsetlvl", 12, 1>>, <<"dev_offsetlvl_unit", 12, 2>>,
       <<"dev_rfatt", 13, 1>>, <<"dev_rfatt_unit", 13, 2>>,
       <<"dev_elatt", 14, 1>>, <<"dev_elatt_unit", 14, 2>>,
       <<"dev_RBW", 15, 1>>, <<"dev_RBW_unit", 15, 2>>,
       <<"dev_VBW", 16, 1>>, <<"dev_VBW_unit", 16, 2>>,
       <<"dev_SWT", 17, 1>>, <<"dev_SWT_unit", 17, 2>>,
       <<"dev_sweep_cnt", 18, 1>>, <<"tr_window", 19, 1>>,
       <<"tr_refpos", 20, 1>>, <<"tr_refpos_unit", 20, 2>>,
       <<"tr_rangelvl", 21, 1>>, <<"tr_rangelvl_unit", 21, 2>>,
       <<"tr_xAx_type", 22, 1>>, <<"tr_yAx_type", 23, 1>>,
       <<"tr_xAx_unit", 24, 1>>, <<"tr_yAx_unit", 25, 1>>,
       <<"tr_trace", 26, 1>>, <<"tr_trace_mode", 27, 1>>,
       <<"tr_detector", 28, 1>>, <<"tr_meas_number", 29, 1>> >>

\* The arguments of the device-settings constructor call, in call order.
ZNL_device_args ==
    <<"dev_type", "dev_version", "dev_date", "dev_mode",
       "dev_preamp", "dev_transducer", "dev_center_freq", "dev_center_unit",
       "dev_offset", "dev_offset_unit", "dev_xAx_start", "dev_xAx_start_unit",
       "dev_xAx_stop", "dev_xAx_stop_unit", "dev_span", "dev_span_unit",
       "dev_reflvl", "dev_reflvl_unit", "dev_offsetlvl", "dev_offsetlvl_unit",
       "dev_rfatt", "dev_rfatt_unit", "dev_elatt", "dev_elatt_unit",
       "dev_RBW", "dev_RBW_unit", "dev_VBW", "dev_VBW_unit",
       "dev_SWT", "dev_SWT_unit", "dev_sweep_cnt" >>

\* device-settings __init__: <<attribute, parameter position, conversion>>,
\* in assignment order.
ZNL_device_init ==
    <<<<"dev_type", 1, "str">>, <<"version", 2, "str">>, <<"date", 3, "str">>,
       <<"mode", 4, "str">>, <<"preamp", 5, "str">>, <<"transducer", 6, "str">>,
       <<"center_freq", 7, "float">>, <<"center_unit", 8, "str">>, <<"offset", 9, "float">>,
       <<"offset_unit", 10, "str">>, <<"xAx_start", 11, "float">>, <<"xAx_start_unit", 12, "str">>,
       <<"xAx_stop", 13, "float">>, <<"xAx_stop_unit", 14, "str">>, <<"span", 15, "float">>,
       <<"span_unit", 16, "str">>, <<"reflvl", 17, "float">>, <<"reflvl_unit", 18, "str">>,
       <<"offsetlvl", 19, "float">>, <<"offsetlvl_unit", 20, "str">>, <<"rfatt", 21, "float">>,
       <<"rfatt_unit", 22, "str">>, <<"elatt", 23, "float">>, <<"elatt_unit", 24, "str">>,
       <<"RBW", 25, "float">>, <<"RBW_unit", 26, "str">>, <<"VBW", 27, "float">>,
       <<"VBW_unit", 28, "str">>, <<"SWT", 29, "float">>, <<"SWT_unit", 30, "str">>,
       <<"sweep_cnt", 31, "int">> >>

\* The arguments of the trace-settings constructor call, in call order.
ZNL_trace_args ==
    <<"tr_window", "tr_refpos", "tr_refpos_unit", "tr_rangelvl",
       "tr_rangelvl_unit", "tr_xAx_type", "tr_yAx_type", "tr_xAx_unit",
       "tr_yAx_unit", "tr_trace", "tr_trace_mode", "tr_detector",
       "tr_meas_number" >>

\* trace-settings __init__: <<attribute, parameter position, conversion>>,
\* in assignment order.
ZNL_trace_init ==
    <<<<"window", 1, "str">>, <<"refpos", 2, "float">>, <<"refpos_unit", 3, "str">>,
       <<"rangelvl", 4, "float">>, <<"rangelvl_unit", 5, "str">>, <<"xAx_type", 6, "str">>,
       <<"yAx_type", 7, "str">>, <<"xAx_unit", 8, "str">>, <<"yAx_unit", 9, "str">>,
       <<"trace", 10, "str">>, <<"trace_mode", 11, "str">>, <<"detector", 12, "str">>,
       <<"meas_number", 13, "int">> >>

Families == {"ZVL", "ZNL"}

Lookups_mut_noskip(fam) ==
    IF fam = "ZVL"
    THEN [k \in 1..Len(ZVL_lookups) |->
            IF ZVL_lookups[k][2] > 22
            THEN <<ZVL_lookups[k][1], ZVL_lookups[k][2] - 1, ZVL_lookups[k][3]>>
            ELSE ZVL_lookups[k]]
    ELSE [k \in 1..Len(ZNL_lookups) |->
            IF ZNL_lookups[k][2] > 18
            THEN <<ZNL_lookups[k][1], ZNL_lookups[k][2] - 1, ZNL_lookups[k][3]>>
            ELSE ZNL_lookups[k]]
Lookups(fam) == IF fam = "ZVL" THEN ZVL_lookups ELSE ZNL_lookups

DeviceArgs(fam) == IF fam = "ZVL" THEN ZVL_device_args ELSE ZNL_device_args

DeviceInit(fam) == IF fam = "ZVL" THEN ZVL_device_init ELSE ZNL_device_init

TraceArgs(fam) == IF fam = "ZVL" THEN ZVL_trace_args ELSE ZNL_trace_args

TraceInit(fam) == IF fam = "ZVL" THEN ZVL_trace_init ELSE ZNL_trace_init

(***************************************************************************)
(* Exceptions and the steps of the parse as functions of their inputs.     *)
(***************************************************************************)

\* No value: an unbound name, no exception in flight, nothing returned.
None == <<>>

\* A raised exception: its class, its message, the argument the message
\* quotes, and the statement of the parser that raised it.
Raise(type, msg, arg, at) == [type |-> type, msg |-> msg, arg |-> arg, at |-> at]

FloatError_mut_stripped(x, at) ==
    Raise("ValueError", "could not convert string to float", strip(x), at)
FloatError(x, at) == Raise("ValueError", "could not convert string to float", x, at)

IntError(x, at) == Raise("ValueError", "invalid literal for int() with base 10", x, at)

IndexError(at) == Raise("IndexError", "list index out of range", <<>>, at)

NoSuchFile(name) == Raise("FileNotFoundError", "No such file or directory", <<name>>, "open")

\* `line and line[0].isdigit()` on the stripped line.
IsDataLine(line) == line # <<>> /\ isdigit(Head(line))

\* Lines 237-238 / 524-525: the row of string tokens appended to file_header.
AddHeader_mut_skipblank(hdr, line) ==
    IF line = <<>> THEN hdr ELSE Append(hdr, split(line))
AddHeader(hdr, line) == Append(hdr, split(line))

\* file_header[row][token] raises IndexError: lk is <<variable, row, token>>.
LookupFails_mut_eager(hdr, lk) ==
    \/ Len(hdr) < 28
    \/ lk[2] + 1 > Len(hdr)
    \/ lk[3] + 1 > Len(hdr[lk[2] + 1])
LookupFails(hdr, lk) ==
    \/ lk[2] + 1 > Len(hdr)
    \/ lk[3] + 1 > Len(hdr[lk[2] + 1])

\* Index of the first lookup of lks, from the i-th on, that raises; 0 if none.
RECURSIVE FirstFailingLookup(_, _, _)
FirstFailingLookup(hdr, lks, i) ==
    IF i > Len(lks) THEN 0
    ELSE IF LookupFails(hdr, lks[i]) THEN i
    ELSE FirstFailingLookup(hdr, lks, i + 1)

\* The variables the first n lookups of lks bind.
RECURSIVE Bind_mut_rowabove(_, _, _)
Bind_mut_rowabove(hdr, lks, n) ==
    IF n = 0 THEN <<>>
    ELSE LET row == IF /\ lks[n][2] >= 1
                       /\ lks[n][3] + 1 <= Len(hdr[lks[n][2]])
                    THEN lks[n][2] ELSE lks[n][2] + 1
         IN  (lks[n][1] :> hdr[row][lks[n][3] + 1])
                 @@ Bind_mut_rowabove(hdr, lks, n - 1)
RECURSIVE Bind(_, _, _)
Bind(hdr, lks, n) ==
    IF n = 0 THEN <<>>
    ELSE (lks[n][1] :> hdr[lks[n][2] + 1][lks[n][3] + 1])
             @@ Bind(hdr, lks, n - 1)

\* Index of the first token float() rejects, 0 if none.
FirstNotFloat_mut_skip(toks, i) == 0
RECURSIVE FirstNotFloat(_, _)
FirstNotFloat(toks, i) ==
    IF i > Len(toks) THEN 0
    ELSE IF ~float(toks[i]).ok THEN i
    ELSE FirstNotFloat(toks, i + 1)

\* [float(x) for x in toks], defined when FirstNotFloat(toks, 1) = 0.
FloatRow(toks) == [i \in 1..Len(toks) |-> float(toks[i]).val]

\* One conversion of a settings constructor.
Convert_mut_default(conv, x) ==
    CASE conv = "float" -> [ok |-> TRUE, val |-> float(x).val]
      [] conv = "int"   -> [ok |-> TRUE, val |-> int(x).val]
      [] OTHER          -> [ok |-> TRUE, val |-> x]
Convert(conv, x) ==
    CASE conv = "float" -> float(x)
      [] conv = "int"   -> int(x)
      [] OTHER          -> [ok |-> TRUE, val |-> x]

\* Index of the first assignment of a constructor whose conversion raises,
\* 0 if none.  init is the constructor's table, args the call's arguments,
\* locals the values bound by the header lookups.
RECURSIVE FirstBadInit(_, _, _, _)
FirstBadInit(init, args, locals, i) ==
    IF i > Len(init) THEN 0
    ELSE IF ~Convert(init[i][3], locals[args[init[i][2]]]).ok THEN i
    ELSE FirstBadInit(init, args, locals, i + 1)

\* Lines 231-238 / 518-525: the loop `for line in file` from line i of the
\* file on, with the tables as they are; pos is the line the file object
\* would yield next, exc the exception of the float() that ended the loop.
RECURSIVE ReadLines_mut_region(_, _, _, _)
ReadLines_mut_region(lines, i, data, header) ==
    IF i > Len(lines)
    THEN [data |-> data, header |-> header, pos |-> i, exc |-> None]
    ELSE LET line == strip(lines[i])
             toks == split(line)
             bad  == FirstNotFloat(toks, 1)
         IN  IF IsDataLine(line) \/ (data # <<>> /\ line # <<>>)
             THEN IF bad = 0
                  THEN ReadLines_mut_region(lines, i + 1,
                                            Append(data, FloatRow(toks)), header)
                  ELSE [data |-> data, header |-> header, pos |-> i + 1,
                        exc |-> FloatError(toks[bad], "read")]
             ELSE ReadLines_mut_region(lines, i + 1, data,
                                       AddHeader(header, line))
RECURSIVE ReadLines(_, _, _, _)
ReadLines(lines, i, data, header) ==
    IF i > Len(lines)
    THEN [data |-> data, header |-> header, pos |-> i, exc |-> None]
    ELSE LET line == strip(lines[i])
             toks == split(line)
             bad  == FirstNotFloat(toks, 1)
         IN  IF IsDataLine(line)
             THEN IF bad = 0
                  THEN ReadLines(lines, i + 1, Append(data, FloatRow(toks)),
                                 header)
                  ELSE [data |-> data, header |-> header, pos |-> i + 1,
                        exc |-> FloatError(toks[bad], "read")]
             ELSE ReadLines(lines, i + 1, data, AddHeader(header, line))

\* The object a constructor builds when no conversion raises.
RECURSIVE Construct(_, _, _, _)
Construct(init, args, locals, i) ==
    IF i > Len(init) THEN <<>>
    ELSE (init[i][1] :> Convert(init[i][3], locals[args[init[i][2]]]).val)
             @@ Construct(init, args, locals, i + 1)

\* The exception of the first failing conversion of a constructor.
InitError(init, args, locals, at) ==
    LET i == FirstBadInit(init, args, locals, 1)
        x == locals[args[init[i][2]]]
    IN  IF init[i][3] = "int" THEN IntError(x, at) ELSE FloatError(x, at)

(***************************************************************************)
(* The files the parsers are run on.                                       *)
(***************************************************************************)

\* Most data lines after the header of a generated file.
MaxRows == 2

\* Most file names in the list given to a batch parse.
MaxFiles == 2

\* The decimal digits of a natural number, as characters.
RECURSIVE Digits(_)
Digits(n) ==
    LET d == <<"0", "1", "2", "3", "4", "5", "6", "7", "8", "9">>[(n % 10) + 1]
    IN  IF n < 10 THEN <<d>> ELSE Digits(n \div 10) \o <<d>>

\* The header line an instrument writes for header row r (from 0):
\* name;value;unit with the value r + 1, so every row's tokens differ.
HeaderLine(r) ==
    <<"k">> \o Digits(r) \o <<";">> \o Digits(r + 1) \o <<";", "u">>
        \o Digits(r) \o <<"\n">>

BlankLine == <<"\n">>

\* Header rows the family's instrument writes: 22 device lines, a blank
\* separator and 5 trace lines (ZVL); 19 device and 11 trace lines (ZNL).
HeaderRows(fam) == IF fam = "ZVL" THEN 28 ELSE 30

WellFormedHeader(fam) ==
    [i \in 1..HeaderRows(fam) |->
        IF fam = "ZVL" /\ i = 23 THEN BlankLine ELSE HeaderLine(i - 1)]

\* Lines a damaged or foreign header may hold in place of a row.
OddHeaderLines ==
    { BlankLine,
      <<"k", ";", "a", ";", "u", "\n">>,
      <<"k", ";", "1", ".", "5", ";", "u", "\n">>,
      <<"k", "\n">>,
      <<"k", ";", "7", "\n">>,
      <<" ", "k", " ", ";", " ", "7", " ", ";", " ", "u", " ", "\n">>,
      <<"7", ";", "8", ";", "9", "\n">>,
      <<"U+00B2", ";", "7", ";", "u", "\n">>,
      <<"C", "F", ";", "1", ".", "0", "E", "+", "0", "5", ";", "H", "z",
        "\n">> }

\* Header rows (from 0) that are edited: the first, a float row with a
\* unit, the integer row of the device settings, the last row.
EditRows(fam) ==
    IF fam = "ZVL" THEN {0, 4, 21, 27} ELSE {0, 6, 18, 29}

ReplaceRow(h, r, line) == [h EXCEPT ![r + 1] = line]

DeleteRow(h, r) == SubSeq(h, 1, r) \o SubSeq(h, r + 2, Len(h))

InsertRow(h, r, line) == SubSeq(h, 1, r) \o <<line>> \o SubSeq(h, r + 1, Len(h))

EditedHeaders(fam) ==
    LET h == WellFormedHeader(fam) IN
    { ReplaceRow(h, r, l) : r \in EditRows(fam), l \in OddHeaderLines }
        \cup { DeleteRow(h, r) : r \in EditRows(fam) }
        \cup { InsertRow(h, r, BlankLine) : r \in EditRows(fam) }

Row3 == <<"1", "0", ";", "-", "2", ".", "5", ";", "3", "\n">>

Row2 == <<" ", "4", "0", ";", " ", "5", " ", "\n">>

RowBad == <<"6", ";", " ", "a", ";", "7", "\n">>

RowArabic == <<"U+0663", ";", "1", ";", "2", "\n">>

\* Lines of the data region.
DataLines == {Row3, Row2, RowBad, RowArabic}

RECURSIVE SeqsUpTo(_, _)
SeqsUpTo(S, n) ==
    IF n = 0 THEN {<<>>}
    ELSE LET shorter == SeqsUpTo(S, n - 1) IN
         shorter \cup { Append(q, x) : q \in shorter, x \in S }

\* Data regions with a one-column row, with a blank line and a line led by
\* a sign between the rows, and with a line led by a sign only.
OddData ==
    { << Row3, <<"8", "\n">> >>,
      << Row3, <<" ", "\n">>, <<"-", "1", ";", "2", ";", "3", "\n">>, Row3 >>,
      << <<"-", "1", ";", "2", ";", "3", "\n">> >>,
      << Row3, <<"+", "4", ";", "5", ";", "6", "\n">>,
         <<".", "5", ";", "1", ";", "2", "\n">>, Row2 >> }

\* Data regions put after an edited header.
SampleData == { <<Row3>>, <<RowBad, Row2>> }

\* The header row (from 0) of the integer field sweep_cnt.
IntRow(fam) == IF fam = "ZVL" THEN 21 ELSE 18

RowB == <<"9", ";", "b", ";", "1", "\n">>

\* Files with more than one defect: device and trace field that do not
\* convert, missing last header line, short data row (for autopeak 1), two
\* data lines that are not numeric.
SeveralDefects(fam) ==
    LET h    == WellFormedHeader(fam)
        last == HeaderRows(fam) - 1
        bad  == <<"k", ";", "a", ";", "u", "\n">>
    IN  { ReplaceRow(ReplaceRow(h, IntRow(fam), bad), last, bad) \o <<Row2>>,
          ReplaceRow(DeleteRow(h, last), IntRow(fam), bad) \o <<Row2>>,
          ReplaceRow(h, last, bad) \o <<Row2>>,
          DeleteRow(h, last) \o <<Row2>>,
          ReplaceRow(DeleteRow(h, last), IntRow(fam), bad)
              \o <<Row3, RowB, RowBad>> }

\* The contents of the files of one family that the model parses.
Files(fam) ==
    { WellFormedHeader(fam) \o d : d \in SeqsUpTo(DataLines, MaxRows) \cup OddData }
        \cup { h \o d : h \in EditedHeaders(fam), d \in SampleData }
        \cup SeveralDefects(fam)

\* The entry of the directory for a name under which no file exists.
Missing == << <<"ENOENT">> >>

\* The files of a batch: two that parse, one with a data row that is not
\* numeric, one with the last header line missing, one with a sweep count
\* that is no integer, and no file.
BatchFiles(fam) ==
    LET h == WellFormedHeader(fam) IN
    { h \o <<Row3, RowArabic>>,
      h \o <<Row2>>,
      h \o <<Row3, RowBad>>,
      DeleteRow(h, HeaderRows(fam) - 1) \o <<Row3>>,
      ReplaceRow(h, IntRow(fam),
                 <<"k", ";", "1", ".", "5", ";", "u", "\n">>) \o <<Row3>>,
      Missing }

\* Two files for a call that runs beside the others: one that parses and
\* one with a data row that is not numeric.
OtherFiles(fam) ==
    { WellFormedHeader(fam) \o <<Row2>>,
      WellFormedHeader(fam) \o <<Row3, RowBad>> }

(***************************************************************************)
(* *_read_1trace as a function of its arguments and the file.              *)
(***************************************************************************)

\* Column col (from 1) of the rows.
Column(rows, col) == [i \in 1..Len(rows) |-> rows[i][col]]

\* What a call hands its caller: the returned list or the exception.
Returned(r) == [result |-> r, exc |-> None]

Raised(e) == [result |-> None, exc |-> e]

\* Lines 243-310 / 530-602 on the tables the read loop has filled.
Rest(fam, data, header, ap) ==
    LET lks  == Lookups(fam)
        loc  == Bind(header, lks, Len(lks))
        need == IF ap = 1 THEN 3 ELSE 2
    IN  IF FirstFailingLookup(header, lks, 1) # 0
        THEN Raised(IndexError("lookup"))
        ELSE IF FirstBadInit(DeviceInit(fam), DeviceArgs(fam), loc, 1) # 0
        THEN Raised(InitError(DeviceInit(fam), DeviceArgs(fam), loc, "device"))
        ELSE IF FirstBadInit(TraceInit(fam), TraceArgs(fam), loc, 1) # 0
        THEN Raised(InitError(TraceInit(fam), TraceArgs(fam), loc, "trace"))
        ELSE IF \E i \in 1..Len(data) : Len(data[i]) < need
        THEN Raised(IndexError("assemble"))
        ELSE Returned(<< Construct(DeviceInit(fam), DeviceArgs(fam), loc, 1),
                         Construct(TraceInit(fam), TraceArgs(fam), loc, 1),
                         Column(data, 1),
                         Column(data, 2),
                         IF ap = 1 THEN Column(data, 3) ELSE <<>> >>)

\* Lines 220-310 / 507-602: the whole call on the file of that name.
Parse(fam, name, lines, ap) ==
    IF lines = Missing THEN Raised(NoSuchFile(name))
    ELSE LET r == ReadLines(lines, 1, <<>>, <<>>) IN
         IF r.exc # None THEN Raised(r.exc)
         ELSE Rest(fam, r.data, r.header, ap)

(***************************************************************************)
(* State.                                                                  *)
(***************************************************************************)

VARIABLES
    disk,             \* file name -> the file's lines, or Missing
    family,           \* "ZVL" or "ZNL": which pair of functions is called
    filenames,        \* argument of *_read_multrace
    autopeak,         \* argument of both functions (True is 1, False is 0)
    m_device_setting, \* *_read_multrace: device_setting
    m_trace_setting,  \* *_read_multrace: trace_setting
    m_frequency,      \* *_read_multrace: frequency
    m_yval1,          \* *_read_multrace: yval1
    m_yval2,          \* *_read_multrace: yval2
    file_i,           \* *_read_multrace: position of the for loop in filenames
    pc,               \* the statement that runs next
    file,             \* *_read_1trace: the open file object
    file_data,        \* *_read_1trace: file_data
    file_header,      \* *_read_1trace: file_header
    locals,           \* *_read_1trace: the dev_... and tr_... variables bound so far
    device_setting,   \* *_read_1trace: device_setting
    trace_setting,    \* *_read_1trace: trace_setting
    frequency,        \* *_read_1trace: frequency
    yval1,            \* *_read_1trace: yval1
    yval2,            \* *_read_1trace: yval2
    cnt,              \* *_read_1trace: cnt of the assembly loop
    result,           \* what the latest *_read_1trace call returned
    exc,              \* the exception that left the program
    ret,              \* what *_read_multrace returned
    ShowCMD,          \* module-level flag ShowCMD
    ShowdB,           \* module-level flag ShowdB
    log,              \* what a script calling *_read_1trace got, per call
    o_pc,             \* a second call of *_read_1trace: its next statement
    o_file,           \* a second call of *_read_1trace: its file object
    o_tables,         \* a second call of *_read_1trace: file_data, file_header
    o_out             \* a second call of *_read_1trace: what it handed back

inputs == <<disk, family, filenames, autopeak>>

batch == <<m_device_setting, m_trace_setting, m_frequency, m_yval1, m_yval2>>

tables == <<file_data, file_header>>

settings == <<locals, device_setting, trace_setting>>

lists == <<frequency, yval1, yval2, cnt>>

globals == <<ShowCMD, ShowdB>>

other == <<o_pc, o_file, o_tables, o_out>>

vars == <<inputs, batch, file_i, pc, file, tables, settings, lists, result,
          exc, ret, globals, log, other>>

\* The values autopeak is called with: 0 / False, 1 / True, and 2.
AutopeakValues == {0, 1, 2}

Names == {"a.dat", "b.dat"}

\* State after the caller has entered *_read_multrace (lines 334-338):
\* the five result lists are empty and the loop is at the first name.
Start(fam, d, names, ap) ==
    /\ family = fam
    /\ disk = d
    /\ filenames = names
    /\ autopeak = ap
    /\ m_device_setting = <<>>
    /\ m_trace_setting = <<>>
    /\ m_frequency = <<>>
    /\ m_yval1 = <<>>
    /\ m_yval2 = <<>>
    /\ file_i = 1
    /\ pc = "for"
    /\ file = None
    /\ file_data = <<>>
    /\ file_header = <<>>
    /\ locals = <<>>
    /\ device_setting = None
    /\ trace_setting = None
    /\ frequency = <<>>
    /\ yval1 = <<>>
    /\ yval2 = <<>>
    /\ cnt = 0
    /\ result = None
    /\ exc = None
    /\ ret = None
    /\ ShowCMD = FALSE
    /\ ShowdB = FALSE
    /\ log = <<>>
    /\ o_pc = "call"
    /\ o_file = None
    /\ o_tables = None
    /\ o_out = None

\* One file name, any generated file of the family or no file.
Init ==
    \E fam \in Families, ap \in AutopeakValues :
    \E c \in Files(fam) \cup {Missing} :
        Start(fam, [n \in {"a.dat"} |-> c], <<"a.dat">>, ap)

\* A list of up to MaxFiles names, each naming any file of the batch set.
InitBatch ==
    \E fam \in Families, ap \in AutopeakValues :
    \E names \in SeqsUpTo(Names, MaxFiles) :
    \E d \in [Names -> BatchFiles(fam)] :
        Start(fam, d, names, ap)

(***************************************************************************)
(* *_read_1trace, statement by statement.                                  *)
(***************************************************************************)

\* The exception leaves *_read_1trace and, uncaught, *_read_multrace.
Propagate(e) ==
    /\ exc' = e
    /\ pc' = "raised"

\* Lines 341 / 633: the loop takes the next name and calls *_read_1trace,
\* whose first statements (222-226, 509-513) bind the five empty lists.
Call_mut_keep ==
    /\ pc = "for"
    /\ file_i <= Len(filenames)
    /\ pc' = "open"
    /\ file' = None
    /\ file_data' = <<>>
    /\ file_header' = <<>>
    /\ locals' = <<>>
    /\ device_setting' = None
    /\ trace_setting' = None
    /\ cnt' = 0
    /\ result' = None
    /\ UNCHANGED <<globals, log, other>>
    /\ UNCHANGED <<inputs, batch, file_i, frequency, yval1, yval2, exc, ret>>
Call_mut_leak ==
    /\ pc = "for"
    /\ file_i <= Len(filenames)
    /\ pc' = "open"
    /\ file' = None
    /\ locals' = <<>>
    /\ device_setting' = None
    /\ trace_setting' = None
    /\ frequency' = <<>>
    /\ yval1' = <<>>
    /\ yval2' = <<>>
    /\ cnt' = 0
    /\ result' = None
    /\ UNCHANGED <<globals, log, other>>
    /\ UNCHANGED <<inputs, batch, file_i, tables, exc, ret>>
Call ==
    /\ pc = "for"
    /\ file_i <= Len(filenames)
    /\ pc' = "open"
    /\ file' = None
    /\ file_data' = <<>>
    /\ file_header' = <<>>
    /\ locals' = <<>>
    /\ device_setting' = None
    /\ trace_setting' = None
    /\ frequency' = <<>>
    /\ yval1' = <<>>
    /\ yval2' = <<>>
    /\ cnt' = 0
    /\ result' = None
    /\ UNCHANGED <<globals, log, other>>
    /\ UNCHANGED <<inputs, batch, file_i, exc, ret>>

\* Lines 230 / 517: open(filepath + filename, 'r').
Open ==
    /\ pc = "open"
    /\ LET name == filenames[file_i] IN
       IF disk[name] = Missing
       THEN /\ Propagate(NoSuchFile(name))
            /\ UNCHANGED file
       ELSE /\ file' = [name |-> name, pos |-> 1, closed |-> FALSE]
            /\ pc' = "read"
            /\ UNCHANGED exc
    /\ UNCHANGED <<globals, log, other>>
    /\ UNCHANGED <<inputs, batch, file_i, tables, settings, lists, result, ret>>

\* Lines 230-238 / 517-525: the with block.  Leaving it, at the end of the
\* file or by the exception of a float(), closes the file.
ReadFile_mut_noclose ==
    /\ pc = "read"
    /\ LET r == ReadLines(disk[file.name], file.pos, file_data, file_header)
       IN  /\ file' = [file EXCEPT !.pos = r.pos, !.closed = (r.exc = None)]
           /\ file_data' = r.data
           /\ file_header' = r.header
           /\ IF r.exc # None
              THEN Propagate(r.exc)
              ELSE /\ pc' = "lookup"
                   /\ UNCHANGED exc
    /\ UNCHANGED <<globals, log, other>>
    /\ UNCHANGED <<inputs, batch, file_i, settings, lists, result, ret>>
ReadFile ==
    /\ pc = "read"
    /\ LET r == ReadLines(disk[file.name], file.pos, file_data, file_header)
       IN  /\ file' = [file EXCEPT !.pos = r.pos, !.closed = TRUE]
           /\ file_data' = r.data
           /\ file_header' = r.header
           /\ IF r.exc # None
              THEN Propagate(r.exc)
              ELSE /\ pc' = "lookup"
                   /\ UNCHANGED exc
    /\ UNCHANGED <<globals, log, other>>
    /\ UNCHANGED <<inputs, batch, file_i, settings, lists, result, ret>>

\* Lines 243-284 / 530-575: the header lookups, in program order.  The
\* variables bound before a failing lookup stay bound.
ExtractHeader ==
    /\ pc = "lookup"
    /\ LET lks == Lookups(family)
           bad == FirstFailingLookup(file_header, lks, 1)
       IN  IF bad # 0
           THEN /\ locals' = Bind(file_header, lks, bad - 1)
                /\ Propagate(IndexError("lookup"))
           ELSE /\ locals' = Bind(file_header, lks, Len(lks))
                /\ pc' = "device"
                /\ UNCHANGED exc
    /\ UNCHANGED <<globals, log, other>>
    /\ UNCHANGED <<inputs, batch, file_i, file, tables, device_setting,
                   trace_setting, lists, result, ret>>

\* Lines 289-297 / 580-587: the device-settings constructor.
NewDevice_mut_tracefirst ==
    /\ pc = "device"
    /\ LET init == DeviceInit(family)
           args == DeviceArgs(family)
       IN  IF FirstBadInit(TraceInit(family), TraceArgs(family), locals, 1) # 0
           THEN /\ Propagate(InitError(TraceInit(family), TraceArgs(family),
                                       locals, "trace"))
                /\ UNCHANGED device_setting
           ELSE IF FirstBadInit(init, args, locals, 1) # 0
           THEN /\ Propagate(InitError(init, args, locals, "device"))
                /\ UNCHANGED device_setting
           ELSE /\ device_setting' = Construct(init, args, locals, 1)
                /\ pc' = "trace"
                /\ UNCHANGED exc
    /\ UNCHANGED <<globals, log, other>>
    /\ UNCHANGED <<inputs, batch, file_i, file, tables, locals, trace_setting,
                   lists, result, ret>>
NewDevice ==
    /\ pc = "device"
    /\ LET init == DeviceInit(family)
           args == DeviceArgs(family)
       IN  IF FirstBadInit(init, args, locals, 1) # 0
           THEN /\ Propagate(InitError(init, args, locals, "device"))
                /\ UNCHANGED device_setting
           ELSE /\ device_setting' = Construct(init, args, locals, 1)
                /\ pc' = "trace"
                /\ UNCHANGED exc
    /\ UNCHANGED <<globals, log, other>>
    /\ UNCHANGED <<inputs, batch, file_i, file, tables, locals, trace_setting,
                   lists, result, ret>>

\* Lines 299-300 / 589-592: the trace-settings constructor.
NewTrace ==
    /\ pc = "trace"
    /\ LET init == TraceInit(family)
           args == TraceArgs(family)
       IN  IF FirstBadInit(init, args, locals, 1) # 0
           THEN /\ Propagate(InitError(init, args, locals, "trace"))
                /\ UNCHANGED trace_setting
           ELSE /\ trace_setting' = Construct(init, args, locals, 1)
                /\ pc' = "assemble"
                /\ UNCHANGED exc
    /\ UNCHANGED <<globals, log, other>>
    /\ UNCHANGED <<inputs, batch, file_i, file, tables, locals, device_setting,
                   lists, result, ret>>

\* Line 307 / 599: `autopeak == 1`.
AutopeakOn_mut_truthy(ap) == ap # 0
AutopeakOn_mut_always(ap) == TRUE
AutopeakOn_mut_flag(ap) == ap = 1 \/ ShowCMD
AutopeakOn_mut_positive(ap) == ap >= 1
AutopeakOn(ap) == ap = 1

\* file_data[cnt][col] raises IndexError.
NoCell_mut_strict(data, c, col) ==
    col + 1 > Len(data[c + 1]) \/ Len(data[c + 1]) > 2
NoCell(data, c, col) == col + 1 > Len(data[c + 1])

\* file_data[cnt][col].
Cell_mut_first(data, c, col) == data[c + 1][1]
Cell(data, c, col) == data[c + 1][col + 1]

\* Lines 303-308 / 595-600: one iteration of the assembly loop.  The appends
\* that precede a failing index stay done.
Assemble ==
    /\ pc = "assemble"
    /\ cnt < Len(file_data)
    /\ frequency' = Append(frequency, Cell(file_data, cnt, 0))
    /\ IF NoCell(file_data, cnt, 1)
       THEN /\ Propagate(IndexError("assemble"))
            /\ UNCHANGED <<yval1, yval2, cnt>>
       ELSE /\ yval1' = Append(yval1, Cell(file_data, cnt, 1))
            /\ IF AutopeakOn(autopeak)
               THEN IF NoCell(file_data, cnt, 2)
                    THEN /\ Propagate(IndexError("assemble"))
                         /\ UNCHANGED <<yval2, cnt>>
                    ELSE /\ yval2' = Append(yval2, Cell(file_data, cnt, 2))
                         /\ cnt' = cnt + 1
                         /\ UNCHANGED <<pc, exc>>
               ELSE /\ cnt' = cnt + 1
                    /\ UNCHANGED <<yval2, pc, exc>>
    /\ UNCHANGED <<globals, log, other>>
    /\ UNCHANGED <<inputs, batch, file_i, file, tables, settings, result, ret>>

\* Line 310 / 602: return [device_setting, trace_setting, frequency, yval1, yval2].
Return ==
    /\ pc = "assemble"
    /\ cnt = Len(file_data)
    /\ result' = <<device_setting, trace_setting, frequency, yval1, yval2>>
    /\ pc' = "append"
    /\ UNCHANGED <<globals, log, other>>
    /\ UNCHANGED <<inputs, batch, file_i, file, tables, settings, lists, exc,
                   ret>>

(***************************************************************************)
(* *_read_multrace.                                                        *)
(***************************************************************************)

\* Lines 341-346 / 633-638: the returned list is unpacked and its parts
\* appended to the five result lists.
AppendResult ==
    /\ pc = "append"
    /\ m_device_setting' = Append(m_device_setting, result[1])
    /\ m_trace_setting' = Append(m_trace_setting, result[2])
    /\ m_frequency' = Append(m_frequency, result[3])
    /\ m_yval1' = Append(m_yval1, result[4])
    /\ m_yval2' = Append(m_yval2, result[5])
    /\ file_i' = file_i + 1
    /\ pc' = "for"
    /\ UNCHANGED <<globals, log, other>>
    /\ UNCHANGED <<inputs, file, tables, settings, lists, result, exc, ret>>

\* Line 348 / 640: return [device_setting, trace_setting, frequency, yval1, yval2].
ReturnAll ==
    /\ pc = "for"
    /\ file_i > Len(filenames)
    /\ ret' = <<m_device_setting, m_trace_setting, m_frequency, m_yval1,
               m_yval2>>
    /\ pc' = "done"
    /\ UNCHANGED <<globals, log, other>>
    /\ UNCHANGED <<inputs, batch, file_i, file, tables, settings, lists,
                   result, exc>>

Next ==
    \/ Call
    \/ Open
    \/ ReadFile
    \/ ExtractHeader
    \/ NewDevice
    \/ NewTrace
    \/ Assemble
    \/ Return
    \/ AppendResult
    \/ ReturnAll

Spec == Init /\ [][Next]_vars

\* *_read_multrace over a list of files.
SpecBatch == InitBatch /\ [][Next]_vars

(***************************************************************************)
(* The module-level flags, a script that calls *_read_1trace file after    *)
(* file, and a second call of *_read_1trace running beside it.             *)
(***************************************************************************)

\* Lines 52-54.
set_showCMD ==
    /\ ShowCMD' = TRUE
    /\ UNCHANGED <<ShowdB, log, other, inputs, batch, file_i, pc, file,
                   tables, settings, lists, result, exc, ret>>

\* Lines 70-72.
reset_showCMD ==
    /\ ShowCMD' = FALSE
    /\ UNCHANGED <<ShowdB, log, other, inputs, batch, file_i, pc, file,
                   tables, settings, lists, result, exc, ret>>

\* The script gets the list the call returned and goes on to the next name.
Receive ==
    /\ pc = "append"
    /\ log' = Append(log, Returned(result))
    /\ file_i' = file_i + 1
    /\ pc' = "for"
    /\ UNCHANGED <<globals, other, inputs, batch, file, tables, settings,
                   lists, result, exc, ret>>

\* The script catches the exception of the call and goes on to the next
\* name.
Catch ==
    /\ pc = "raised"
    /\ log' = Append(log, Raised(exc))
    /\ exc' = None
    /\ file_i' = file_i + 1
    /\ pc' = "for"
    /\ UNCHANGED <<globals, other, inputs, batch, file, tables, settings,
                   lists, result, ret>>

\* The name the second call is given.
OtherName == "b.dat"

\* Lines 230 / 517 of the second call.
OtherOpen ==
    /\ o_pc = "call"
    /\ IF disk[OtherName] = Missing
       THEN /\ o_out' = Raised(NoSuchFile(OtherName))
            /\ o_pc' = "raised"
            /\ UNCHANGED <<o_file, o_tables>>
       ELSE /\ o_file' = [name |-> OtherName, pos |-> 1, closed |-> FALSE]
            /\ o_tables' = [data |-> <<>>, header |-> <<>>]
            /\ o_pc' = "read"
            /\ UNCHANGED o_out
    /\ UNCHANGED <<globals, log, inputs, batch, file_i, pc, file, tables,
                   settings, lists, result, exc, ret>>

\* Lines 230-238 / 517-525 of the second call.
OtherRead ==
    /\ o_pc = "read"
    /\ LET r == ReadLines(disk[o_file.name], o_file.pos, o_tables.data,
                          o_tables.header)
       IN  /\ o_file' = [o_file EXCEPT !.pos = r.pos, !.closed = TRUE]
           /\ o_tables' = [data |-> r.data, header |-> r.header]
           /\ IF r.exc # None
              THEN o_out' = Raised(r.exc) /\ o_pc' = "raised"
              ELSE o_pc' = "rest" /\ UNCHANGED o_out
    /\ UNCHANGED <<globals, log, inputs, batch, file_i, pc, file, tables,
                   settings, lists, result, exc, ret>>

\* Lines 243-310 / 530-602 of the second call: they work on its local
\* variables only.
OtherRest ==
    /\ o_pc = "rest"
    /\ LET out == Rest(family, o_tables.data, o_tables.header, autopeak)
       IN  /\ o_out' = out
           /\ o_pc' = IF out.exc = None THEN "returned" ELSE "raised"
    /\ UNCHANGED <<o_file, o_tables, globals, log, inputs, batch, file_i, pc,
                   file, tables, settings, lists, result, exc, ret>>

\* The names the script calls *_read_1trace with, one after the other.
CallLists ==
    { <<"a.dat", "a.dat">>, <<"a.dat", "b.dat", "a.dat">> }

\* The script's autopeak: off or on.
InitCalls ==
    \E fam \in Families, ap \in {0, 1}, names \in CallLists :
    \E ca \in BatchFiles(fam), cb \in OtherFiles(fam) :
        Start(fam, ("a.dat" :> ca) @@ ("b.dat" :> cb), names, ap)

NextCalls ==
    \/ Call
    \/ Open
    \/ ReadFile
    \/ ExtractHeader
    \/ NewDevice
    \/ NewTrace
    \/ Assemble
    \/ Return
    \/ Receive
    \/ Catch
    \/ set_showCMD
    \/ reset_showCMD
    \/ OtherOpen
    \/ OtherRead
    \/ OtherRest

\* Calls of *_read_1trace by a script, flag calls and a second call between
\* their steps.
SpecCalls == InitCalls /\ [][NextCalls]_vars

(***************************************************************************)
(* Properties.                                                             *)
(***************************************************************************)

\* The lines `for line in file` has yielded so far in the current call.
Consumed == SubSeq(disk[file.name], 1, file.pos - 1)

\* The read pass of the current call was cut short by a float() error.
ReadAborted == exc # None /\ exc.at = "read"

IsBlank(l) == strip(l) = <<>>

\* A line whose first character after stripping is one of 0-9.
AsciiLed(l) == ~IsBlank(l) /\ Head(strip(l)) \in AsciiDigit

\* A line whose first character after stripping is a digit in Python's
\* sense: 0-9, or a non-ASCII digit.
DigitLed(l) ==
    /\ ~IsBlank(l)
    /\ Head(strip(l)) \in AsciiDigit \cup {"U+0663", "U+00B2"}

NotAsciiLed(l) == ~AsciiLed(l)

NotDigitLed(l) == ~DigitLed(l)

\* The float rows / token rows of a sequence of lines.
RowsOf(ls) == [i \in 1..Len(ls) |-> FloatRow(split(strip(ls[i])))]

TokensOf(ls) == [i \in 1..Len(ls) |-> split(strip(ls[i]))]

ButLast(ls) == SubSeq(ls, 1, Len(ls) - 1)

\* C1 as claimed: every line read so far is in the data table if and only
\* if it is led by one of 0-9 after stripping, every other line is in the
\* header table, both in file order.
C1_AsciiDigitRule ==
    file # None =>
        /\ file_data = RowsOf(SelectSeq(Consumed, AsciiLed))
        /\ file_header = TokensOf(SelectSeq(Consumed, NotAsciiLed))

\* C1 (amended): the lines the read pass has taken in are in the data table
\* if and only if they are led, after stripping, by a character for which
\* str.isdigit() holds (0-9 or a non-ASCII digit); every other line, blank
\* ones included, is in the header table; both tables are in file order.
\* The line whose float() conversion aborts the pass is in neither table.
C1_IsdigitRule ==
    file # None =>
        LET taken == IF ReadAborted THEN ButLast(Consumed) ELSE Consumed IN
        /\ file_data = RowsOf(SelectSeq(taken, DigitLed))
        /\ file_header = TokensOf(SelectSeq(taken, NotDigitLed))
        /\ ReadAborted => DigitLed(Consumed[Len(Consumed)])

\* A finished read pass that put a line led by a non-ASCII digit and a line
\* led by whitespace and 0-9 into the data table, and a later line into the
\* header table.
C1_Witness ==
    /\ pc = "lookup"
    /\ Len(file_data) = 2
    /\ \E i \in 1..Len(Consumed) : Head(Consumed[i]) = "U+0663"
    /\ \E i \in 1..Len(Consumed) :
          Head(Consumed[i]) = " " /\ AsciiLed(Consumed[i])
    /\ Len(file_header) >= 28

NotBlankNotDigitLed(l) == ~IsBlank(l) /\ ~DigitLed(l)

\* C2 as claimed: blank lines are discarded, so the header table has one
\* row per non-blank line that is not a data line.
C2_BlankDiscarded ==
    file # None =>
        Len(file_header) = Len(SelectSeq(Consumed, NotBlankNotDigitLed))

\* Lines i.. of ls, of which the header lines sit in the header table hdr
\* from index h + 1 on, blank ones as a row of one empty token.
RECURSIVE HeaderRowsFrom(_, _, _, _)
HeaderRowsFrom(ls, hdr, i, h) ==
    IF i > Len(ls) THEN TRUE
    ELSE IF DigitLed(ls[i]) THEN HeaderRowsFrom(ls, hdr, i + 1, h)
    ELSE /\ h + 1 <= Len(hdr)
         /\ hdr[h + 1] = split(strip(ls[i]))
         /\ IsBlank(ls[i]) => hdr[h + 1] = << <<>> >>
         /\ HeaderRowsFrom(ls, hdr, i + 1, h + 1)

\* C2 (amended): a blank line is not discarded: it is appended to the
\* header table as a row of one empty token (never to the data table), so
\* the header index of a line is the number of non-data lines before it,
\* blank ones counted, and a blank line inserted before a header line
\* raises that line's index by one.
C2_BlankIsHeaderRow ==
    file # None => HeaderRowsFrom(Consumed, file_header, 1, 0)

\* A read pass that took in a blank line as the first line, so that the
\* second line of the file sits at the second header index.
C2_Witness ==
    /\ pc = "lookup"
    /\ IsBlank(Consumed[1])
    /\ NotBlankNotDigitLed(Consumed[2])
    /\ file_header[1] = << <<>> >>
    /\ file_header[2] = split(strip(Consumed[2]))

\* The data rows of the file of the current call, from the file's text.
DataRowsOfFile == RowsOf(SelectSeq(disk[file.name], DigitLed))

\* C3: a parse that returns has, for every i, the first column of the i-th
\* data row of the file at frequency[i], the second at yval1[i] and, with
\* autopeak set, the third at yval2[i]: no row dropped, doubled or moved.
C3_ColumnsInFileOrder ==
    result # None =>
        LET rows == DataRowsOfFile IN
        /\ DOMAIN result[3] = DOMAIN rows
        /\ DOMAIN result[4] = DOMAIN rows
        /\ \A i \in DOMAIN rows :
              /\ result[3][i] = rows[i][1]
              /\ result[4][i] = rows[i][2]
        /\ autopeak = 1 =>
              /\ DOMAIN result[5] = DOMAIN rows
              /\ \A i \in DOMAIN rows : result[5][i] = rows[i][3]

\* The rows "10;-2.5;3" and "<U+0663>;1;2" parsed with autopeak set:
\* frequency is [10.0, 3.0], yval1 [-2.5, 1.0], yval2 [3.0, 2.0].
C3_Witness ==
    /\ result # None
    /\ autopeak = 1
    /\ result[3] = << <<1, 1>>, <<3, 0>> >>
    /\ result[4] = << <<-25, -1>>, <<1, 0>> >>
    /\ result[5] = << <<3, 0>>, <<2, 0>> >>

\* C4: a parse that returns has as many frequencies and primary values as
\* the file has data rows; the secondary values are none or as many; they
\* are some exactly when autopeak is set (equals 1) and the file has data
\* rows, all of them with a third column.
C4_Lengths ==
    result # None =>
        LET rows == DataRowsOfFile
            n    == Len(rows)
        IN  /\ Len(result[3]) = n
            /\ Len(result[4]) = n
            /\ Len(result[5]) \in {0, n}
            /\ Len(result[5]) # 0 <=>
                  /\ autopeak = 1
                  /\ n > 0
                  /\ \A i \in 1..n : Len(rows[i]) >= 3

\* A parse with autopeak set that returned two secondary values.
C4_Witness ==
    /\ result # None
    /\ autopeak = 1
    /\ Len(result[3]) = 2
    /\ Len(result[5]) = 2

\* The tokens of a line without those after the second.
TwoColumns(l) == SubSeq(split(strip(l)), 1, 2)

\* The data rows of the current file as they are with the third column
\* taken away.
TwoColumnRowsOfFile ==
    LET ls == SelectSeq(disk[file.name], DigitLed) IN
    [i \in 1..Len(ls) |-> FloatRow(TwoColumns(ls[i]))]

\* The extraction of the current call has reached the assembly of the trace.
AtAssembly == trace_setting # None

\* C5: with autopeak not set and a third column in the data rows, the
\* assembly raises nothing, yval2 is empty and frequency and yval1 are what
\* the rows give with the third column taken away.
C5_ThirdColumnIgnored ==
    (/\ AtAssembly
     /\ autopeak = 0
     /\ \E i \in DOMAIN DataRowsOfFile : Len(DataRowsOfFile[i]) >= 3
     /\ \A i \in DOMAIN DataRowsOfFile : Len(DataRowsOfFile[i]) >= 2)
    => /\ exc = None
       /\ yval2 = <<>>
       /\ result # None =>
            /\ result[5] = <<>>
            /\ result[3] = [i \in DOMAIN TwoColumnRowsOfFile |->
                               TwoColumnRowsOfFile[i][1]]
            /\ result[4] = [i \in DOMAIN TwoColumnRowsOfFile |->
                               TwoColumnRowsOfFile[i][2]]

\* A parse without autopeak of a file with two three-column rows that
\* returned both rows and no secondary value.
C5_Witness ==
    /\ result # None
    /\ autopeak = 0
    /\ result[5] = <<>>
    /\ Len(result[3]) = 2
    /\ \A i \in DOMAIN DataRowsOfFile : Len(DataRowsOfFile[i]) = 3

\* The read pass of the current call has ended without an exception.
ReadDone == file # None /\ file.closed /\ ~ReadAborted

\* Columns the assembly reads of every data row.
ColumnsRead == IF autopeak = 1 THEN 3 ELSE 2

\* Columns the claimed shape gives every data row.
ColumnsExpected == IF autopeak = 1 THEN 3 ELSE 2

RequiredRows == IF family = "ZVL" THEN 28 ELSE 30

Present(k) ==
    LET lk == Lookups(family)[k] IN
    /\ lk[2] < Len(file_header)
    /\ lk[3] < Len(file_header[lk[2] + 1])

BadTokens(l) ==
    LET toks == split(strip(l)) IN
    { i \in 1..Len(toks) : ~float(toks[i]).ok }

Malformed(l) == DigitLed(l) /\ BadTokens(l) # {}

LookupsDone == DOMAIN locals = { Lookups(family)[k][1] : k \in 1..Len(Lookups(family)) }

\* The text of the token a constructor's i-th assignment converts.
InitToken(init, args, i) == locals[args[init[i][2]]]

\* The i-th assignment of a constructor converts its token.
InitOK(init, args, i) ==
    CASE init[i][3] = "float" -> float(InitToken(init, args, i)).ok
      [] init[i][3] = "int"   -> int(InitToken(init, args, i)).ok
      [] OTHER                -> TRUE

BadInits(init, args) == { i \in 1..Len(init) : ~InitOK(init, args, i) }

\* obj holds, for every numeric attribute, the number its token denotes.
NumbersIn(obj, init, args) ==
    \A i \in 1..Len(init) :
        /\ init[i][3] = "float" =>
              obj[init[i][1]] = float(InitToken(init, args, i)).val
        /\ init[i][3] = "int" =>
              obj[init[i][1]] = int(InitToken(init, args, i)).val

\* e is the ValueError of the first assignment of the constructor that
\* does not convert: it quotes the token, not the field.
FirstBadInitError(e, init, args) ==
    /\ e.type = "ValueError"
    /\ DOMAIN e = {"type", "msg", "arg", "at"}
    /\ \E i \in BadInits(init, args) :
          /\ \A j \in BadInits(init, args) : i <= j
          /\ e.arg = InitToken(init, args, i)
          /\ e.msg = IF init[i][3] = "int"
                     THEN "invalid literal for int() with base 10"
                     ELSE "could not convert string to float"

CompleteResult ==
    /\ exc = None
    /\ ~ReadAborted
    /\ \A i \in 1..Len(disk[file.name]) : ~Malformed(disk[file.name][i])
    /\ \A k \in 1..Len(Lookups(family)) : Present(k)
    /\ BadInits(DeviceInit(family), DeviceArgs(family)) = {}
    /\ BadInits(TraceInit(family), TraceArgs(family)) = {}
    /\ \A i \in 1..Len(file_data) : Len(file_data[i]) >= ColumnsRead
    /\ Len(frequency) = Len(file_data)
    /\ Len(yval1) = Len(file_data)
    /\ result = <<device_setting, trace_setting, frequency, yval1, yval2>>

\* The lists of the batch keep the entries they have.
EarlierResultsKept ==
    \A q \in 1..5 :
        /\ Len(batch[q]) <= Len(batch'[q])
        /\ SubSeq(batch'[q], 1, Len(batch[q])) = batch[q]

\* C10: a parse is all-or-nothing per file. A call that fails hands the
\* caller nothing (no settings object, no list, no partial output) and
\* leaves the results of the other files as they are; a call that hands
\* out a result has passed every stage on its own file.
C10_AllOrNothing ==
    /\ [](exc # None => pc = "raised" /\ result = None /\ ret = None)
    /\ [](result # None => CompleteResult)
    /\ [][pc' = "raised" => batch' = batch]_vars
    /\ [][batch' # batch =>
            /\ pc = "append"
            /\ result # None
            /\ EarlierResultsKept
            /\ \A q \in 1..5 : batch'[q] = Append(batch[q], result[q])]_vars

\* The second file of a batch failed in the assembly, rows already in its
\* lists, after the first file was parsed: nothing of the second is handed
\* out and the first file's result is in the batch lists.
C10_Witness ==
    /\ pc = "raised"
    /\ file_i = 2
    /\ Len(m_frequency) = 1
    /\ Len(m_frequency[1]) = 2
    /\ exc.at = "assemble"
    /\ frequency # <<>>
    /\ result = None

\* C11 as claimed: a failure of the file at index k does not abort the
\* batch: while names are left in the list the batch goes on, and it ends
\* only by returning its lists.
C11_BatchContinues ==
    exc # None => pc # "raised" \/ ret # None

\* The first of two files failed and the batch ended with the exception:
\* the second name was never opened and nothing was returned.
C11_Witness ==
    /\ pc = "raised"
    /\ file_i = 1
    /\ Len(filenames) = 2
    /\ disk[filenames[2]] # Missing
    /\ exc.type = "ValueError"
    /\ ret = None

\* A file of the family as the instrument writes it: the family's header,
\* then data lines only, each of numbers, with the columns the parse reads.
WellFormedFile(fam, lines, ap) ==
    /\ lines # Missing
    /\ Len(lines) >= HeaderRows(fam)
    /\ SubSeq(lines, 1, HeaderRows(fam)) = WellFormedHeader(fam)
    /\ \A i \in HeaderRows(fam) + 1..Len(lines) :
          /\ DigitLed(lines[i])
          /\ ~Malformed(lines[i])
          /\ Len(split(strip(lines[i]))) >= (IF ap = 1 THEN 3 ELSE 2)

\* The list a single-file parse of the lines returns, None if it raises:
\* the stages of *_read_1trace composed as functions.
Single(fam, lines, ap) == Parse(fam, "", lines, ap).result

\* C12: over n well-formed files the batch returns five lists of n entries
\* each, the i-th entries being what the single-file parse of the i-th name
\* returns with the same autopeak; an empty list of names gives five empty
\* lists.
C12_BatchIsMapOfSingle ==
    (/\ pc \in {"for", "done", "raised"}
     /\ \A i \in 1..Len(filenames) :
           WellFormedFile(family, disk[filenames[i]], autopeak))
    => /\ pc # "raised"
       /\ \A q \in 1..5 : Len(batch[q]) = file_i - 1
       /\ \A i \in 1..file_i - 1 :
             <<batch[1][i], batch[2][i], batch[3][i], batch[4][i], batch[5][i]>>
               = Single(family, disk[filenames[i]], autopeak)
       /\ pc = "done" =>
             /\ ret = batch
             /\ \A q \in 1..5 : Len(ret[q]) = Len(filenames)
             /\ filenames = <<>> => ret = << <<>>, <<>>, <<>>, <<>>, <<>> >>

\* A batch of two names of different well-formed files has returned: two
\* entries per list, the two frequency lists differing.
C12_Witness ==
    /\ pc = "done"
    /\ Len(filenames) = 2
    /\ \A i \in 1..2 : WellFormedFile(family, disk[filenames[i]], autopeak)
    /\ Len(ret[3]) = 2
    /\ ret[3][1] # ret[3][2]
    /\ ret[1][1] # None

\* The batch of no names has returned.
C12_WitnessEmpty == pc = "done" /\ filenames = <<>> /\ ret[5] = <<>>

\* C13: calls of *_read_1trace with the same name on an unchanged file and
\* with the same autopeak hand back the same list, field for field, or the
\* same exception, whatever calls of the parser and of set_showCMD /
\* reset_showCMD were made between them.
C13_Idempotent ==
    \A i, j \in 1..Len(log) :
        filenames[i] = filenames[j] => log[i] = log[j]

\* The third call repeated the first after a call on another file, with
\* ShowCMD set meanwhile, and both returned rows.
C13_Witness ==
    /\ Len(log) = 3
    /\ filenames[1] = filenames[3]
    /\ filenames[2] # filenames[1]
    /\ ShowCMD
    /\ log[1].result # None
    /\ log[3].result[3] # <<>>
    /\ log[2] # log[1]

\* The second call repeated the first and both failed.
C13_WitnessFailure ==
    /\ Len(log) = 2
    /\ filenames[1] = filenames[2]
    /\ log[2].exc # None

\* The file object of the current call is open.
FileOpen == file # None /\ ~file.closed

\* C14: the file a call opened is closed on every way out of the call: it
\* is open only inside the with block, so it is closed when the call
\* returns or raises (in the read loop, in the lookups, in a constructor,
\* in the assembly), when the batch takes the next name, and when the
\* batch returns or fails; the batch has at most this one file open.
C14_FileReleased ==
    /\ FileOpen <=> pc = "read"
    /\ pc = "read" => file.name = filenames[file_i]
    /\ pc \in {"lookup", "device", "trace", "assemble", "append"} =>
          file # None /\ file.closed
    /\ pc \in {"for", "done", "raised"} => ~FileOpen
    /\ (pc = "raised" /\ exc.type # "FileNotFoundError") =>
          file # None /\ file.closed

\* The second file of a batch raised in its read loop after one data row:
\* its file object is closed.
C14_Witness ==
    /\ pc = "raised"
    /\ exc.at = "read"
    /\ file_i = 2
    /\ file.closed
    /\ Len(file_data) = 1

\* The index in the family's lookups of the local variable v.
LookupOf(v) ==
    CHOOSE k \in 1..Len(Lookups(family)) : Lookups(family)[k][1] = v

\* The header token the i-th assignment of a constructor stems from: the
\* token at the position of the lookup of the argument it is passed.
SourceToken(init, args, i) ==
    LET lk == Lookups(family)[LookupOf(args[init[i][2]])]
    IN  file_header[lk[2] + 1][lk[3] + 1]

\* obj holds in every attribute the token at the attribute's position,
\* numeric attributes converted.
FromPositions(obj, init, args) ==
    /\ DOMAIN obj = { init[i][1] : i \in 1..Len(init) }
    /\ \A i \in 1..Len(init) :
          LET tok == SourceToken(init, args, i) IN
          obj[init[i][1]] =
              CASE init[i][3] = "float" -> float(tok).val
                [] init[i][3] = "int"   -> int(tok).val
                [] OTHER                -> tok

\* A lookup of token 2 of a row is the unit of the lookup before it, which
\* reads token 1 of the same row into a float field, and the two are passed
\* to neighbouring attributes of one object.
UnitsFollowValues ==
    LET lks == Lookups(family)
        FieldsOf(init, args) ==
            { <<args[init[i][2]], i, init[i][3]>> : i \in 1..Len(init) }
        fields == FieldsOf(DeviceInit(family), DeviceArgs(family))
                    \cup FieldsOf(TraceInit(family), TraceArgs(family))
    IN  \A k \in 1..Len(lks) :
          /\ lks[k][3] \in {1, 2}
          /\ lks[k][3] = 2 =>
                /\ k > 1
                /\ lks[k - 1][2] = lks[k][2]
                /\ lks[k - 1][3] = 1
                /\ \E i \in 1..Len(DeviceInit(family)) + Len(TraceInit(family)) :
                      /\ <<lks[k - 1][1], i, "float">> \in fields
                      /\ <<lks[k][1], i + 1, "str">> \in fields

\* C15: every field of the settings objects holds the token at the field's
\* fixed (row, token) position of the header table; a unit is token 2 of
\* the row whose token 1 is its value; for ZVL the 5th header line gives
\* center_freq (token 1) and center_unit (token 2); no two fields of a
\* family read the same position.
C15_FieldsFromFixedPositions ==
    /\ pc = "lookup" =>
          /\ \A j, k \in 1..Len(Lookups(family)) :
                (j # k) =>
                    /\ Lookups(family)[j][1] # Lookups(family)[k][1]
                    /\ <<Lookups(family)[j][2], Lookups(family)[j][3]>>
                         # <<Lookups(family)[k][2], Lookups(family)[k][3]>>
          /\ UnitsFollowValues
    /\ (device_setting # None /\ pc \in {"trace", "append"}) =>
          /\ FromPositions(device_setting, DeviceInit(family),
                           DeviceArgs(family))
          /\ family = "ZVL" =>
                /\ device_setting["center_freq"] = float(file_header[5][2]).val
                /\ device_setting["center_unit"] = file_header[5][3]
                /\ file_header[5]
                     = split(strip(SelectSeq(disk[file.name], NotDigitLed)[5]))
    /\ (trace_setting # None /\ pc \in {"assemble", "append"}) =>
          FromPositions(trace_setting, TraceInit(family), TraceArgs(family))

\* A ZVL file whose 5th header line is "CF;1.0E+05;Hz": center_freq is
\* 100000.0 (1 * 10^5) and center_unit is "Hz".
C15_Witness ==
    /\ family = "ZVL"
    /\ trace_setting # None
    /\ file_header[5] = << <<"C", "F">>, <<"1", ".", "0", "E", "+", "0", "5">>,
                           <<"H", "z">> >>
    /\ device_setting["center_freq"] = <<1, 5>>
    /\ device_setting["center_unit"] = <<"H", "z">>

\* The header rows (from 0) read into the arguments args of a constructor.
RowsReadFor(args) ==
    { Lookups(family)[k][2] :
        k \in { n \in 1..Len(Lookups(family)) :
                  \E a \in 1..Len(args) : args[a] = Lookups(family)[n][1] } }

\* The file of the current call has the family's documented header.
DocumentedLayout ==
    /\ file # None
    /\ Len(disk[file.name]) >= HeaderRows(family)
    /\ SubSeq(disk[file.name], 1, HeaderRows(family)) = WellFormedHeader(family)

\* C16: the row offsets match the documented layouts.  ZVL: the device
\* fields come from header lines 1-22, line 23 is the blank separator and
\* is not read, the 5 trace fields come from lines 24-28.  ZNL: the device
\* fields come from lines 1-19 and the trace fields from lines 20-30.  The
\* highest row read is the 28th line for ZVL and the 30th for ZNL, and on a
\* file of that layout each row read is the file's line of that number.
C16_OffsetsMatchLayout ==
    /\ pc = "lookup" =>
          LET dev == RowsReadFor(DeviceArgs(family))
              tr  == RowsReadFor(TraceArgs(family))
          IN  /\ family = "ZVL" =>
                    /\ dev = 0..21
                    /\ tr = 23..27
                    /\ Len(TraceArgs(family)) = 5
              /\ family = "ZNL" =>
                    /\ dev = 0..18
                    /\ tr = 19..29
              /\ \A k \in 1..Len(Lookups(family)) :
                    Lookups(family)[k][2] < (IF family = "ZVL" THEN 28 ELSE 30)
              /\ \E k \in 1..Len(Lookups(family)) :
                    Lookups(family)[k][2] + 1 = (IF family = "ZVL" THEN 28 ELSE 30)
    /\ (DocumentedLayout /\ pc \in {"lookup", "append"}) =>
          /\ ~ReadAborted =>
                /\ Len(file_header) >= HeaderRows(family)
                /\ \A r \in RowsReadFor(DeviceArgs(family))
                              \cup RowsReadFor(TraceArgs(family)) :
                      file_header[r + 1] = split(strip(disk[file.name][r + 1]))
                /\ family = "ZVL" => file_header[23] = << <<>> >>
          /\ pc = "append" =>
                /\ DOMAIN locals = { Lookups(family)[k][1] :
                                       k \in 1..Len(Lookups(family)) }
                /\ \A k \in 1..Len(Lookups(family)) :
                      locals[Lookups(family)[k][1]]
                        = split(strip(disk[file.name][Lookups(family)[k][2] + 1]))
                              [Lookups(family)[k][3] + 1]

\* A ZVL file of the documented layout was parsed: 28 header rows, the
\* 23rd the blank separator, the point count taken from the 28th line.
C16_Witness ==
    /\ family = "ZVL"
    /\ pc = "append"
    /\ DocumentedLayout
    /\ Len(file_header) = 28
    /\ file_header[23] = << <<>> >>
    /\ locals["tr_meas_number"] = split(strip(disk[file.name][28]))[2]

\* The token has no whitespace at either end.
Trimmed(tok) == tok = <<>> \/ (tok[1] \notin Whitespace /\ tok[Len(tok)] \notin Whitespace)

\* C17 as claimed: every token of every row of the header table is trimmed,
\* so no string or unit field of a settings object has whitespace around it.
C17_TokensTrimmed ==
    /\ \A r \in 1..Len(file_header) :
          \A t \in 1..Len(file_header[r]) : Trimmed(file_header[r][t])
    /\ device_setting # None =>
          \A i \in 1..Len(DeviceInit(family)) :
              DeviceInit(family)[i][3] = "str" =>
                  Trimmed(device_setting[DeviceInit(family)[i][1]])

\* A parse returned a device-settings object whose dev_type is " 7 ", the
\* middle token of the header line " k ; 7 ; u ".
C17_Witness ==
    /\ result # None
    /\ file_header[1] = << <<"k", " ">>, <<" ", "7", " ">>, <<" ", "u">> >>
    /\ result[1]["dev_type"] = <<" ", "7", " ">>

\* The variables of the calls of *_read_1trace: those of the script's call
\* and those of the second call.
CallState ==
    <<pc, file, tables, settings, lists, result, exc, o_pc, o_file, o_tables,
      o_out>>

\* C18: a call of *_read_1trace hands back what it would hand back run
\* alone (the function Parse of the file, the family and autopeak), however
\* its steps are interleaved with the steps of a call on another file and
\* with set_showCMD / reset_showCMD; no step of a call writes ShowCMD or
\* ShowdB, and what a call has handed back is not altered afterwards.
C18_IndependentParses ==
    /\ []((pc = "for" /\ log # <<>>) =>
             log[Len(log)] = Parse(family, filenames[Len(log)],
                                   disk[filenames[Len(log)]], autopeak))
    /\ [](o_pc \in {"returned", "raised"} =>
             o_out = Parse(family, OtherName, disk[OtherName], autopeak))
    /\ [][/\ Len(log') >= Len(log)
          /\ SubSeq(log', 1, Len(log)) = log
          /\ o_out # None => o_out' = o_out]_vars
    /\ [][globals' # globals => CallState' = CallState]_vars
    /\ [][ShowdB' = ShowdB]_vars

\* The script's call on a.dat has returned while the second call is inside
\* its with block on b.dat and ShowCMD is set.
C18_Witness ==
    /\ pc = "append"
    /\ file_i = 1
    /\ result # None
    /\ o_pc = "read"
    /\ ~o_file.closed
    /\ o_file.name # file.name
    /\ ShowCMD

\* The header table of a file none of whose data lines is malformed.
HeaderOf(lines) == TokensOf(SelectSeq(lines, NotDigitLed))

\* Some lookup of the family finds no row or no token in the table.
LacksLookup(hdr) ==
    \E k \in 1..Len(Lookups(family)) :
        \/ Lookups(family)[k][2] >= Len(hdr)
        \/ Lookups(family)[k][3] >= Len(hdr[Lookups(family)[k][2] + 1])

\* Some numeric field of the constructor has a token that does not convert.
BadField(hdr, init, args) ==
    \E i \in 1..Len(init) :
        LET lk  == Lookups(family)[LookupOf(args[init[i][2]])]
            tok == hdr[lk[2] + 1][lk[3] + 1]
        IN  \/ init[i][3] = "float" /\ ~float(tok).ok
            \/ init[i][3] = "int" /\ ~int(tok).ok

\* Some data line has fewer columns than the assembly reads.
ShortRow(lines) ==
    \E i \in 1..Len(lines) :
        DigitLed(lines[i]) /\ Len(split(strip(lines[i]))) < ColumnsRead

\* The earliest stage at which the file has a defect, "none" if it has none.
DefectStage(lines) ==
    CASE lines = Missing -> "open"
      [] \E i \in 1..Len(lines) : Malformed(lines[i]) -> "read"
      [] LacksLookup(HeaderOf(lines)) -> "lookup"
      [] BadField(HeaderOf(lines), DeviceInit(family), DeviceArgs(family))
            -> "device"
      [] BadField(HeaderOf(lines), TraceInit(family), TraceArgs(family))
            -> "trace"
      [] ShortRow(lines) -> "assemble"
      [] OTHER -> "none"

\* C19: failures are detected in the order read pass, header lookups,
\* device constructor, trace constructor, assembly: the exception of a
\* parse is that of the earliest stage at which its file has a defect, and
\* when it is raised no later stage has begun (no lookup done at a read
\* failure, no object built at a lookup failure, no trace object at a
\* device failure, both objects built at an assembly failure); a read
\* failure is that of the earliest malformed line.
C19_FailureOrder ==
    /\ pc = "raised" =>
          /\ exc.at = DefectStage(disk[filenames[file_i]])
          /\ exc.at = "read" =>
                /\ locals = <<>>
                /\ \A i \in 1..Len(Consumed) - 1 : ~Malformed(Consumed[i])
                /\ Malformed(Consumed[Len(Consumed)])
          /\ exc.at \in {"open", "read", "lookup"} =>
                device_setting = None /\ trace_setting = None
          /\ exc.at = "device" =>
                device_setting = None /\ trace_setting = None
          /\ exc.at = "trace" =>
                device_setting # None /\ trace_setting = None
          /\ exc.at \in {"open", "read", "lookup", "device", "trace"} =>
                frequency = <<>>
          /\ exc.at = "assemble" =>
                device_setting # None /\ trace_setting # None
    /\ pc = "append" => DefectStage(disk[filenames[file_i]]) = "none"

\* A file with a missing header line, a sweep count that is no integer and
\* two malformed data lines: the parse failed in the read pass at the first
\* of the two, "9;b;1".
C19_Witness ==
    /\ pc = "raised"
    /\ exc.at = "read"
    /\ exc.arg = <<"b">>
    /\ Len(file_header) = RequiredRows - 1
    /\ \E i \in 1..Len(file_header) : file_header[i][2] = <<"a">>
    /\ Len(disk[file.name]) = file.pos

\* A file whose device and trace fields both fail to convert and whose
\* data row is short: the parse failed in the device constructor.
C19_WitnessDevice ==
    /\ pc = "raised"
    /\ exc.at = "device"
    /\ BadField(file_header, TraceInit(family), TraceArgs(family))
    /\ ShortRow(disk[file.name])

\* The number of lines before the i-th that are (not) data lines.
DataBefore(lines, i) == Len(SelectSeq(SubSeq(lines, 1, i - 1), DigitLed))

NonDataBefore(lines, i) == Len(SelectSeq(SubSeq(lines, 1, i - 1), NotDigitLed))

\* A line led by a sign or a point.
SignLed(l) == ~IsBlank(l) /\ Head(strip(l)) \in {"-", "+", "."}

\* C20: classification has no header region and data region.  Of the lines
\* a read pass took in, each line led by a digit is the data row whose
\* index is the number of digit-led lines before it, wherever it stands,
\* and occupies no header index; each other line, also after data rows and
\* also when it is numeric and led by '-', '+' or '.', is the header row
\* whose index is the number of non-data lines before it.
C20_StatelessClassification ==
    (file # None /\ file.closed /\ pc \in {"lookup", "raised"}) =>
        LET taken == IF ReadAborted THEN ButLast(Consumed) ELSE Consumed IN
        /\ \A i \in 1..Len(taken) :
              IF DigitLed(taken[i])
              THEN /\ DataBefore(taken, i) < Len(file_data)
                   /\ file_data[DataBefore(taken, i) + 1]
                        = FloatRow(split(strip(taken[i])))
              ELSE /\ NonDataBefore(taken, i) < Len(file_header)
                   /\ file_header[NonDataBefore(taken, i) + 1]
                        = split(strip(taken[i]))
        /\ Len(file_data) + Len(file_header) = Len(taken)

\* A read pass took in a data row, then lines led by '+' and '.', then a
\* data row: the two lines are header rows 29 and 30 (ZVL), after the 28 of
\* the header, and the data table has two rows.
C20_Witness ==
    /\ pc = "lookup"
    /\ family = "ZVL"
    /\ Len(file_header) = 30
    /\ file_header[29][1] = <<"+", "4">>
    /\ file_header[30][1] = <<".", "5">>
    /\ Len(file_data) = 2
    /\ SignLed(Consumed[Len(Consumed) - 1])
    /\ DigitLed(Consumed[Len(Consumed)])

\* A digit-led line stood in place of the first header line: it is data
\* row 1 and the header table starts with the file's second line.
C20_WitnessDataBetweenHeader ==
    /\ pc = "lookup"
    /\ DigitLed(Consumed[1])
    /\ NotDigitLed(Consumed[2])
    /\ file_data[1] = FloatRow(split(strip(Consumed[1])))
    /\ file_header[1] = split(strip(Consumed[2]))

\* The file of the current call.
CallFile == disk[filenames[file_i]]

\* C21: the secondary column is read only when autopeak equals 1.  With
\* any other value, 2 included, the call hands back what it hands back with
\* autopeak 0: yval2 is empty and no row's third column is read; with
\* autopeak 1 every data row must have a third column, else the parse fails
\* in the assembly at the first row without one, whatever rows precede it.
C21_AutopeakEqualsOne ==
    /\ autopeak # 1 =>
          /\ yval2 = <<>>
          /\ pc = "append" =>
                Returned(result) = Parse(family, filenames[file_i], CallFile, 0)
          /\ pc = "raised" =>
                Raised(exc) = Parse(family, filenames[file_i], CallFile, 0)
          /\ (pc = "raised" /\ exc.at = "assemble") =>
                Len(file_data[cnt + 1]) < 2
    /\ (autopeak = 1 /\ pc = "append") =>
          /\ \A i \in 1..Len(file_data) : Len(file_data[i]) >= 3
          /\ result[5] = Column(file_data, 3)
    /\ (autopeak = 1 /\ pc \in {"assemble", "raised"} /\ trace_setting # None
          /\ \E i \in 1..Len(file_data) : Len(file_data[i]) < 3) =>
          /\ \A i \in 1..cnt : Len(file_data[i]) >= 3
          /\ pc = "raised" =>
                /\ exc.type = "IndexError"
                /\ exc.at = "assemble"
                /\ Len(file_data[cnt + 1]) < 3
                /\ result = None

\* A parse with autopeak 2 of a file with two rows of three columns has
\* returned: yval2 is empty.
C21_Witness ==
    /\ autopeak = 2
    /\ pc = "append"
    /\ Len(file_data) = 2
    /\ \A i \in 1..2 : Len(file_data[i]) = 3
    /\ result[4] # <<>>
    /\ result[5] = <<>>

\* With autopeak 1 the first row had a third column and the second had
\* none: the parse failed at the second row.
C21_WitnessLaterRow ==
    /\ autopeak = 1
    /\ pc = "raised"
    /\ exc.at = "assemble"
    /\ cnt = 1
    /\ Len(file_data[1]) = 3
    /\ Len(file_data[2]) = 2

====
